---- MODULE Spec2Model ----
(***************************************************************************)
(* Model of rust/src/api.rs: the process-wide engine registry LIGHTCLIENT, *)
(* the lifecycle operations that fill and clear it, the command dispatcher *)
(* execute, send_transaction, and the progress relay PROGRESS_SENDER built *)
(* on a tokio broadcast channel.                                           *)
(*                                                                         *)
(* Every API call runs on one of NumProcs caller threads.  A call is a     *)
(* sequence of actions; an action runs from one point where the code       *)
(* touches shared state (a mutex-protected statement, a publish, an engine *)
(* call) to the next.  A statement that takes a mutex, works and drops the *)
(* guard is one action: the lock variable shows who holds the mutex when   *)
(* the statement is over.                                                  *)
(***************************************************************************)
EXTENDS Integers, Sequences, FiniteSets, TLC

\* ------------------------------------------------------------------ bounds
NumProcs == 2        \* caller threads
MaxEngines == 2      \* engine instances alive at once
MaxChannels == 2     \* broadcast channels alive at once

MaxArgLen == 3       \* characters in an argument string
MaxCount == 3        \* largest counter the engine's hook reports
Procs == 1..NumProcs
Engines == 1..MaxEngines
Channels == 1..MaxChannels
None == 0            \* Option::None, for handles, channels and lock holders

\* --------------------------------------------------------------- constants
\* The same message with the space after the colon lost.
NotInitializedCompact == "{\"error\":\"Wallet not initialized\"}"
\* r#"{"error": "Wallet not initialized"}"#
NotInitialized == "{\"error\": \"Wallet not initialized\"}"
InvalidAmount == "{\"error\": \"Invalid amount: cannot be negative\"}"
Text(s) == [text |-> s]
NoResult == Text("")

\* Strings whose characters the code inspects are sequences of characters.
Whitespace == {" ", "\t"}
ArgStrings == { <<>>, <<"[", "a", " ", "b", "]">> }
Verbs == {"new", "send"}
\* Every argument string of up to MaxArgLen characters over a bracket, a
\* letter and the two whitespace characters; verbs around "send".
ArgChars == {"[", "a", " ", "\t"}
AllArgStrings == UNION {[1..n -> ArgChars] : n \in 0..MaxArgLen}
AllVerbs == {"send", "Send", "list"}
\* An engine command's textual result (opaque to the dispatcher).
CommandResults == {"{\"ok\": 1}", "{\"error\": \"engine\"}"}
\* send_transaction's amount: i64.
Amounts == {-1, 5}
\* do_send's outcomes: Ok(txid) or Err(e).  The messages hold no quote
\* character, so e.replace("\"", "\\\"") leaves them as they are.
Txids == {"tx1"}
SendErrors == {"insufficient funds"}

\* The pass-throughs: each calls execute with a fixed verb and "".
PassThroughVerb ==
  [get_sync_status |-> "syncstatus", sync |-> "sync", get_balance |-> "balance",
   get_transactions |-> "list", get_addresses |-> "addresses",
   get_info |-> "info", get_send_progress |-> "sendprogress"]

\* A progress event: the fields of the JSON text the channel carries.
Event(st, pr, er, tx) ==
  [status |-> st, progress |-> pr, total |-> 100, error |-> er, txid |-> tx]
NoEvent == Event("none", 0, "null", "null")
Sending(pr) == Event("sending", pr, "null", "null")
\* A completed event that leaves the txid out.
CompletedWithoutTxid(tx) == Event("completed", 100, "null", "null")
Completed(tx) == Event("completed", 100, "null", tx)
Failed(er) == Event("error", 0, er, "null")

\* ------------------------------------------------------------------- state
VARIABLES
  LIGHTCLIENT,      \* the registry slot: None or the current engine
  lcLock,           \* holder of the LIGHTCLIENT mutex, or None
  strong,           \* per engine: owning references held (Arc strong count)
  monitor,          \* per engine: start_mempool_monitor has been called on it
  wallet_file,      \* a wallet file exists at the resolved path
  lastSet,          \* history: the value the last replace() was given
  installed,        \* history, per engine: a lifecycle operation stored it in the slot
  PROGRESS_SENDER,  \* the relay slot: None or the channel of the stored Sender
  GLOBAL_PROGRESS_SENDER,  \* the bridge's static: None or the channel of its Sender
  psLock,           \* holder of the PROGRESS_SENDER mutex, or None
  rx,               \* per thread: the channel its Receiver is subscribed to, or None
  rxq,              \* per thread: the oldest event its Receiver has not read, or NoEvent
  pc,               \* per thread: position in the call it is running
  op,               \* per thread: the API function it is running
  result,           \* per thread: the value the call returned
  lightclient,      \* per thread: the local `lightclient` / `lc` handle
  amount,           \* per thread: send_transaction's `amount`
  counters,         \* per thread: emit_progress_update's `progress` and `total`
  txid,             \* per thread: send_transaction's `txid` from do_send
  captured,         \* history: what the slot held when the running call read it
  engineCall,       \* history: the engine call the running call made
  sent,             \* history: the events the call gave to send_progress_update
  allOk             \* history: the channel took every one of them

regVars == <<LIGHTCLIENT, lcLock, strong, monitor, wallet_file, lastSet, installed>>
relayVars == <<PROGRESS_SENDER, GLOBAL_PROGRESS_SENDER, psLock, rx, rxq>>
frameVars == <<txid, captured, engineCall>>
pubVars == <<sent, allOk>>
argVars == <<amount, counters>>
vars == <<regVars, relayVars, pc, op, result, lightclient, argVars, frameVars, pubVars>>

NoCall == [target |-> None, verb |-> "", tokens |-> <<>>]

\* ------------------------------------------------------------ pure helpers
\* str::split_whitespace: the maximal runs of non-whitespace, in order.
RECURSIVE SplitWhitespace(_, _)
SplitWhitespace(s, cur) ==
  IF s = <<>>
    THEN IF cur = <<>> THEN <<>> ELSE <<cur>>
    ELSE IF Head(s) \in Whitespace
           THEN (IF cur = <<>> THEN <<>> ELSE <<cur>>) \o SplitWhitespace(Tail(s), <<>>)
           ELSE SplitWhitespace(Tail(s), Append(cur, Head(s)))

\* An args_vec that is always the whitespace split.
ArgsVecSplitOnly(cmd, a) == SplitWhitespace(a, <<>>)
\* execute's args_vec.
ArgsVec(cmd, a) ==
  IF a = <<>> THEN <<>>
  ELSE IF cmd = "send" /\ Head(a) = "[" THEN <<a>>
  ELSE SplitWhitespace(a, <<>>)

\* A reader that borrows the handle instead of cloning it: no count taken.
CloneHandleBorrowed(cnt, e) == cnt
\* Arc::clone / drop of an Option<Arc<LightClient>> (None has no count).
CloneHandle(cnt, e) == IF e = None THEN cnt ELSE [cnt EXCEPT ![e] = @ + 1]
DropHandle(cnt, e) == IF e = None THEN cnt ELSE [cnt EXCEPT ![e] = @ - 1]

\* A read that takes the handle out of the slot (Option::take).
SlotTaken(slot) == None
\* The slot after LIGHTCLIENT.lock().unwrap().borrow().clone(): a shared
\* borrow, the slot keeps its value.
SlotBorrowed(slot) == slot

\* A set that does not take None.
ReplaceUnlessNone(old, new) == IF new = None THEN old ELSE new
\* A set that only fills an empty slot.
ReplaceIfEmpty(old, new) == IF old = None THEN new ELSE old
\* RefCell::replace: the slot takes the new value.
Replace(old, new) == new

\* The guard bound to a local that lives to the end of the function: the
\* caller still holds the mutex while its function goes on.
GuardKept(p, running) == IF running THEN p ELSE None
\* The holder of the LIGHTCLIENT mutex once the statement that locked it is
\* over, whether the function goes on after it (running) or returns: the
\* guard is a temporary of that statement.
GuardDropped(p, running) == None

\* A lifecycle path that forgets to start the watcher.
StartMempoolMonitorOmitted(m, e) == m
\* LightClient::start_mempool_monitor(lc.clone()).
StartMempoolMonitor(m, e) == [m EXCEPT ![e] = TRUE]

\* A new engine takes an identity no live engine has.
FreeEngines == {e \in Engines : strong[e] = 0}
NewEngine == CHOOSE e \in FreeEngines : \A f \in FreeEngines : e <= f

\* An engine whose last reference is dropped is destroyed: what was known
\* of it (watcher started, installed) goes with it.
Reap(cnt, m) == [e \in Engines |-> IF cnt[e] = 0 THEN FALSE ELSE m[e]]

\* -------------------------------------------------------------------- init
\* No call is running, the relay was never initialized and the registry
\* holds `e`: None, or an engine a lifecycle operation installed.
Quiet(e) ==
  /\ LIGHTCLIENT = e
  /\ lcLock = None
  /\ strong = [x \in Engines |-> IF x = e THEN 1 ELSE 0]
  /\ monitor = [x \in Engines |-> x = e]
  /\ lastSet = e
  /\ installed = [x \in Engines |-> x = e]
  /\ PROGRESS_SENDER = None
  /\ GLOBAL_PROGRESS_SENDER = None
  /\ psLock = None
  /\ rx = [p \in Procs |-> None]
  /\ rxq = [p \in Procs |-> NoEvent]
  /\ pc = [p \in Procs |-> "idle"]
  /\ op = [p \in Procs |-> "none"]
  /\ result = [p \in Procs |-> NoResult]
  /\ lightclient = [p \in Procs |-> None]
  /\ amount = [p \in Procs |-> 0]
  /\ counters = [p \in Procs |-> <<0, 0>>]
  /\ txid = [p \in Procs |-> ""]
  /\ captured = [p \in Procs |-> None]
  /\ engineCall = [p \in Procs |-> NoCall]
  /\ sent = [p \in Procs |-> <<>>]
  /\ allOk = [p \in Procs |-> TRUE]

\* The statics as lazy_static! and the static initializer make them.
Init == Quiet(None) /\ wallet_file \in BOOLEAN

\* The process before or after a first initialize_new has returned.
InitWallet == (Quiet(None) \/ Quiet(1)) /\ wallet_file = FALSE

\* The function returns r; its frame is gone.
Finish(p, r) ==
  /\ pc' = [pc EXCEPT ![p] = "done"]
  /\ result' = [result EXCEPT ![p] = r]
  /\ txid' = [txid EXCEPT ![p] = ""]
  /\ captured' = [captured EXCEPT ![p] = None]
  /\ engineCall' = [engineCall EXCEPT ![p] = NoCall]

\* The function goes on at `next`.
Goto(p, next) ==
  /\ pc' = [pc EXCEPT ![p] = next]
  /\ UNCHANGED result

\* The function drops its engine handle (at return, or on an error path).
DropLocal(p) ==
  /\ strong' = DropHandle(strong, lightclient[p])
  /\ monitor' = Reap(strong', monitor)
  /\ installed' = Reap(strong', installed)
  /\ lightclient' = [lightclient EXCEPT ![p] = None]

\* The caller has the result; the thread is free for the next call.
Return(p) ==
  /\ pc[p] = "done"
  /\ pc' = [pc EXCEPT ![p] = "idle"]
  /\ op' = [op EXCEPT ![p] = "none"]
  /\ result' = [result EXCEPT ![p] = NoResult]
  /\ amount' = [amount EXCEPT ![p] = 0]
  /\ counters' = [counters EXCEPT ![p] = <<0, 0>>]
  /\ sent' = [sent EXCEPT ![p] = <<>>]
  /\ allOk' = [allOk EXCEPT ![p] = TRUE]
  /\ UNCHANGED <<regVars, relayVars, lightclient, frameVars>>

\* ----------------------------------------------------------------- execute
\* let lightclient = LIGHTCLIENT.lock().unwrap().borrow().clone();
\* None returns the uninitialized error; Some(l) tokenizes and enters
\* commands::do_user_command(&command, &args_vec, lightclient.as_ref()).
ExecuteOn(p, c, a) ==
  /\ pc[p] = "idle"
  /\ lcLock = None
  /\ op' = [op EXCEPT ![p] = "execute"]
  /\ lightclient' = [lightclient EXCEPT ![p] = LIGHTCLIENT]
  /\ strong' = CloneHandle(strong, LIGHTCLIENT)
  /\ lcLock' = GuardDropped(p, LIGHTCLIENT # None)
  /\ LIGHTCLIENT' = SlotBorrowed(LIGHTCLIENT)
  /\ IF LIGHTCLIENT = None
       THEN Finish(p, Text(NotInitialized))
       ELSE /\ Goto(p, "ex_in_call")
            /\ captured' = [captured EXCEPT ![p] = LIGHTCLIENT]
            /\ engineCall' = [engineCall EXCEPT ![p] =
                 [target |-> lightclient'[p], verb |-> c, tokens |-> ArgsVec(c, a),
                  args |-> a]]
            /\ UNCHANGED txid
  /\ UNCHANGED <<monitor, wallet_file, lastSet, installed,
                 relayVars, argVars, pubVars>>

Execute(p) == \E c \in Verbs, a \in ArgStrings : ExecuteOn(p, c, a)

\* execute over every verb and argument string.
ExecuteAny(p) == \E c \in AllVerbs, a \in AllArgStrings : ExecuteOn(p, c, a)

\* get_sync_status, sync, get_balance, get_transactions, get_addresses,
\* get_info, get_send_progress: execute(verb, ""); new_address(t) is
\* execute("new", t), one of Execute's cases.
PassThrough(p) == \E f \in DOMAIN PassThroughVerb : ExecuteOn(p, PassThroughVerb[f], <<>>)

\* do_user_command returns the engine's text; execute returns it and its
\* handle goes out of scope.
ExecuteReturn(p) ==
  /\ pc[p] = "ex_in_call"
  /\ \E r \in CommandResults : Finish(p, Text(r))
  /\ DropLocal(p)
  /\ UNCHANGED <<LIGHTCLIENT, lcLock, wallet_file, lastSet,
                 relayVars, op, argVars, pubVars>>

\* ------------------------------------------------------------ deinitialize
\* LIGHTCLIENT.lock().unwrap().replace(None); "OK"
Deinitialize(p) ==
  /\ pc[p] = "idle"
  /\ lcLock = None
  /\ op' = [op EXCEPT ![p] = "deinitialize"]
  /\ LIGHTCLIENT' = Replace(LIGHTCLIENT, None)
  /\ lastSet' = None
  /\ strong' = DropHandle(strong, IF LIGHTCLIENT' = None THEN LIGHTCLIENT ELSE None)
  /\ monitor' = Reap(strong', monitor)
  /\ installed' = Reap(strong', installed)
  /\ lcLock' = GuardDropped(p, FALSE)
  /\ Finish(p, Text("OK"))
  /\ UNCHANGED <<wallet_file, relayVars, lightclient, argVars, pubVars>>

\* --------------------------------------------------------------- lifecycle
LifecycleOps == {"initialize_new", "initialize_new_with_info",
                 "initialize_existing_with_birthday", "initialize_from_phrase"}

\* The text a successful lifecycle operation returns (birthday 0, chain
\* height 100).
LifecycleResult(f) ==
  CASE f = "initialize_new" -> "{\"seed\":\"words\"}"
    [] f = "initialize_new_with_info" ->
         "{\"seed\": \"words\", \"birthday\": 0, \"latest_block\": 100}"
    [] f = "initialize_existing_with_birthday" -> "{\"status\": \"OK\", \"birthday\": 0}"
    [] OTHER -> "OK"

\* A check that takes the file for granted.
WalletPathAssumed(file) == TRUE
\* initialize_existing_with_birthday's wallet_path.exists().
WalletPathExists(file) == file

\* initialize_from_phrase's block under `overwrite && config.wallet_exists()`:
\* it computes the wallet path and does nothing with it.  The result is
\* whether a wallet file exists after the block.
OverwriteBlock(ow, exists) == exists

\* The constructor call initialize_from_phrase makes: its `overwrite`
\* argument is the literal false.  Beside it, what the caller asked for,
\* whether a wallet file existed when the function looked, and whether one
\* is there when the constructor starts.
PhraseConstructor(ow, existed, present) ==
  [target |-> None, verb |-> "new_from_phrase", tokens |-> <<>>,
   overwrite |-> FALSE, requested |-> ow, existed |-> existed, present |-> present]

\* The function up to its engine: LightClientConfig::create, then (from
\* disk) the wallet_path.exists() test, then LightClient::new /
\* read_from_disk / new_from_phrase, then (new wallets) do_seed_phrase_sync.
\* Each may fail and return "Error: ..."; a failure after construction
\* drops the engine.  The engine owns the wallet file and may write it.
\* initialize_existing and initialize_from_phrase_simple are calls of the
\* functions below them.  initialize_from_phrase stops here before its
\* constructor: see LifecycleConstruct.
LifecycleBuild(p) ==
  /\ pc[p] = "idle"
  /\ \E f \in LifecycleOps :
       /\ op' = [op EXCEPT ![p] = f]
       /\ \/ /\ Finish(p, Text("Error: e"))
             /\ UNCHANGED <<strong, lightclient, wallet_file>>
          \/ /\ f = "initialize_existing_with_birthday"
             /\ ~WalletPathExists(wallet_file)
             /\ Finish(p, Text("Error: Wallet file not found at: path"))
             /\ UNCHANGED <<strong, lightclient, wallet_file>>
          \/ /\ f = "initialize_existing_with_birthday"
             /\ WalletPathExists(wallet_file)
             /\ Finish(p, Text("Error: Could not read wallet file: e"))
             /\ UNCHANGED <<strong, lightclient, wallet_file>>
          \/ /\ f \in {"initialize_new", "initialize_new_with_info"}
             /\ Finish(p, Text("Error: e"))
             /\ wallet_file' \in {wallet_file, TRUE}
             /\ UNCHANGED <<strong, lightclient>>
          \/ /\ f # "initialize_from_phrase"
             /\ f = "initialize_existing_with_birthday" => WalletPathExists(wallet_file)
             /\ FreeEngines # {}
             /\ lightclient' = [lightclient EXCEPT ![p] = NewEngine]
             /\ strong' = [strong EXCEPT ![NewEngine] = 1]
             /\ wallet_file' \in {wallet_file, TRUE}
             /\ Goto(p, "lc_monitor")
             /\ UNCHANGED frameVars
          \/ /\ f = "initialize_from_phrase"
             /\ \E ow \in BOOLEAN :
                  /\ wallet_file' = OverwriteBlock(ow, wallet_file)
                  /\ engineCall' = [engineCall EXCEPT ![p] =
                       PhraseConstructor(ow, wallet_file, wallet_file')]
             /\ Goto(p, "lc_construct")
             /\ UNCHANGED <<strong, lightclient, txid, captured>>
  /\ UNCHANGED <<LIGHTCLIENT, lcLock, monitor, lastSet, installed,
                 relayVars, argVars, pubVars>>

\* LightClient::new_from_phrase(seed_phrase, &config, birthday, false): the
\* library's constructor; it may refuse (Err) or build the engine, whatever
\* the file's state.
LifecycleConstruct(p) ==
  /\ pc[p] = "lc_construct"
  /\ \/ /\ Finish(p, Text("Error: e"))
        /\ UNCHANGED <<strong, lightclient, wallet_file>>
     \/ /\ FreeEngines # {}
        /\ lightclient' = [lightclient EXCEPT ![p] = NewEngine]
        /\ strong' = [strong EXCEPT ![NewEngine] = 1]
        /\ wallet_file' \in {wallet_file, TRUE}
        /\ engineCall' = [engineCall EXCEPT ![p] = NoCall]
        /\ Goto(p, "lc_monitor")
        /\ UNCHANGED <<txid, captured>>
  /\ UNCHANGED <<LIGHTCLIENT, lcLock, monitor, lastSet, installed,
                 relayVars, op, argVars, pubVars>>

\* let lc = Arc::new(lightclient); LightClient::start_mempool_monitor(lc.clone());
LifecycleMonitor(p) ==
  /\ pc[p] = "lc_monitor"
  /\ monitor' = StartMempoolMonitor(monitor, lightclient[p])
  /\ Goto(p, "lc_replace")
  /\ UNCHANGED <<LIGHTCLIENT, lcLock, strong, wallet_file, lastSet, installed,
                 relayVars, op, lightclient, argVars, frameVars, pubVars>>

\* LIGHTCLIENT.lock().unwrap().replace(Some(lc)): lc moves into the slot,
\* the old handle is dropped, then the guard; the success text is returned.
LifecycleReplace(p) ==
  /\ pc[p] = "lc_replace"
  /\ lcLock = None
  /\ LIGHTCLIENT' = Replace(LIGHTCLIENT, lightclient[p])
  /\ lastSet' = lightclient[p]
  /\ strong' = DropHandle(strong,
       IF LIGHTCLIENT' = lightclient[p] THEN LIGHTCLIENT ELSE lightclient[p])
  /\ monitor' = Reap(strong', monitor)
  /\ installed' = Reap(strong', [installed EXCEPT ![LIGHTCLIENT'] = TRUE])
  /\ lightclient' = [lightclient EXCEPT ![p] = None]
  /\ lcLock' = GuardDropped(p, FALSE)
  /\ Finish(p, Text(LifecycleResult(op[p])))
  /\ UNCHANGED <<wallet_file, relayVars, op, argVars, pubVars>>

\* wallet_exists: config.wallet_exists() on an unconnected configuration.
WalletExists(p) ==
  /\ pc[p] = "idle"
  /\ op' = [op EXCEPT ![p] = "wallet_exists"]
  /\ Finish(p, Text(IF wallet_file THEN "true" ELSE "false"))
  /\ UNCHANGED <<regVars, relayVars, lightclient, argVars, pubVars>>

\* ------------------------------------------------------------------- relay
\* The Receivers subscribed to channel c.
Subscribers(c) == {q \in Procs : rx[q] = c}

\* A channel is closed once no Sender of it is left.
Closed(c) == PROGRESS_SENDER # c /\ GLOBAL_PROGRESS_SENDER # c

\* broadcast::channel(100) makes a channel nothing else refers to.
FreeChannels == {c \in Channels : Closed(c) /\ Subscribers(c) = {}}
NewChannel == CHOOSE c \in FreeChannels : \A d \in FreeChannels : c <= d

\* sender.send(progress_data): Err(SendError) when the channel has no
\* Receiver, else the value is queued for every Receiver.  A Receiver here
\* is read once (get_next_progress_update) or never (init_progress_stream's
\* _rx) before it is dropped, so of its queue only the oldest unread event
\* is ever observed; a poll left unscheduled for 100 publishes (the channel's
\* capacity, RecvError::Lagged) is out of the model's range.
SendOk(c) == Subscribers(c) # {}
\* A send that reaches the Receivers of every channel.
BroadcastToAll(q, c, ev) ==
  [r \in Procs |-> IF pc[r] = "poll_recv" /\ q[r] = NoEvent THEN ev ELSE q[r]]
Broadcast(q, c, ev) ==
  [r \in Procs |->
     IF rx[r] = c /\ pc[r] = "poll_recv" /\ q[r] = NoEvent THEN ev ELSE q[r]]

\* What send_progress_update returns.
SendProgressStatus ==
  IF PROGRESS_SENDER = None THEN "Error: No sender initialized"
  ELSE IF SendOk(PROGRESS_SENDER) THEN "OK"
  ELSE "Error: channel closed"

\* The guard kept while the function that locked the mutex goes on.
SenderGuardKept(p, running) == IF running THEN p ELSE None
\* The holder of the PROGRESS_SENDER mutex once the block that locked it is
\* over, whether the function goes on to wait after it (running) or not:
\* the guard is bound inside the `if let` and dropped at its end.
SenderGuardDropped(p, running) == None

\* send_progress_update(ev): under the lock, send on the stored Sender if
\* there is one.  (The Err arm of PROGRESS_SENDER.lock() needs a thread to
\* panic while it holds the mutex; none of the guarded blocks can.)
SendProgressUpdate(p, ev) ==
  /\ psLock = None
  /\ rxq' = IF PROGRESS_SENDER = None THEN rxq ELSE Broadcast(rxq, PROGRESS_SENDER, ev)
  /\ psLock' = SenderGuardDropped(p, FALSE)
  /\ UNCHANGED <<PROGRESS_SENDER, GLOBAL_PROGRESS_SENDER, rx>>

\* A call of send_progress_update, with what the relay made of it.
Emit(p, ev) ==
  /\ SendProgressUpdate(p, ev)
  /\ sent' = [sent EXCEPT ![p] = Append(@, ev)]
  /\ allOk' = [allOk EXCEPT ![p] = @ /\ SendProgressStatus = "OK"]

\* The events a caller of the exported send_progress_update may pass.
ApiEvents == {Sending(50)}

\* send_progress_update called through the API.
SendProgressUpdateCall(p) ==
  /\ pc[p] = "idle"
  /\ op' = [op EXCEPT ![p] = "send_progress_update"]
  /\ \E ev \in ApiEvents : Emit(p, ev)
  /\ Finish(p, Text(SendProgressStatus))
  /\ UNCHANGED <<regVars, lightclient, argVars>>

\* The mapping without its factor 0.4.
ProgressPercentUnscaled(progress, total) ==
  LET clamped == IF progress < total THEN progress ELSE total
  IN IF total > 0
       THEN LET mapped == 50 + ((clamped * 100) \div total)
            IN IF mapped < 90 THEN mapped ELSE 90
       ELSE 50
\* emit_progress_update's arithmetic: clamp, scale to 0..100, map into 50..90.
\* ((c / t) * 100.0) * 0.4 + 50.0 in f64, at most 90.0, truncated to u32.
\* The f64 value truncates to 50 + floor(40c / t): when 40c / t is a whole
\* number k, c / t is k / 40 and the three roundings give exactly 50 + k
\* (all 41 cases computed); otherwise 40c / t is at least 1 / t >= 2^-32 away
\* from a whole number, far more than the rounding error of three f64
\* operations (about 2^-50 relative).
ProgressPercent(progress, total) ==
  LET clamped == IF progress < total THEN progress ELSE total
  IN IF total > 0
       THEN LET mapped == 50 + ((clamped * 40) \div total)
            IN IF mapped < 90 THEN mapped ELSE 90
       ELSE 50

\* The counters the engine's hook is called with.
Counters == {<<0, 0>>, <<1, 2>>}

\* Every pair of counters up to MaxCount.
AllCounters == (0..MaxCount) \X (0..MaxCount)

\* emit_progress_update(progress, total)
EmitProgressUpdateOn(p, c) ==
  /\ pc[p] = "idle"
  /\ op' = [op EXCEPT ![p] = "emit_progress_update"]
  /\ counters' = [counters EXCEPT ![p] = c]
  /\ Emit(p, Sending(ProgressPercent(c[1], c[2])))
  /\ Finish(p, Text("()"))
  /\ UNCHANGED <<regVars, lightclient, amount>>

EmitProgressUpdate(p) == \E c \in Counters : EmitProgressUpdateOn(p, c)

\* emit_progress_update over every pair of counters.
EmitProgressUpdateAny(p) == \E c \in AllCounters : EmitProgressUpdateOn(p, c)

\* init_progress_stream: let (tx, _rx) = broadcast::channel(100); under the
\* lock *sender = Some(tx), which drops the Sender stored before.  _rx
\* lives to the end of the function.
InitProgressStream(p) ==
  /\ pc[p] = "idle"
  /\ psLock = None
  /\ FreeChannels # {}
  /\ op' = [op EXCEPT ![p] = "init_progress_stream"]
  /\ PROGRESS_SENDER' = NewChannel
  /\ rx' = [rx EXCEPT ![p] = NewChannel]
  /\ psLock' = SenderGuardDropped(p, FALSE)
  /\ Goto(p, "ips_return")
  /\ UNCHANGED <<regVars, GLOBAL_PROGRESS_SENDER, rxq, lightclient, argVars,
                 frameVars, pubVars>>

\* init_progress_stream returns "OK"; _rx is dropped.
InitProgressStreamReturn(p) ==
  /\ pc[p] = "ips_return"
  /\ rx' = [rx EXCEPT ![p] = None]
  /\ Finish(p, Text("OK"))
  /\ UNCHANGED <<regVars, PROGRESS_SENDER, GLOBAL_PROGRESS_SENDER, psLock, rxq,
                 op, lightclient, argVars, pubVars>>

\* init_progress_bridge: under the lock, GLOBAL_PROGRESS_SENDER =
\* Some(sender.clone()) if a Sender is stored.
InitProgressBridge(p) ==
  /\ pc[p] = "idle"
  /\ psLock = None
  /\ op' = [op EXCEPT ![p] = "init_progress_bridge"]
  /\ GLOBAL_PROGRESS_SENDER' =
       IF PROGRESS_SENDER # None THEN PROGRESS_SENDER ELSE GLOBAL_PROGRESS_SENDER
  /\ psLock' = SenderGuardDropped(p, FALSE)
  /\ Finish(p, Text("()"))
  /\ UNCHANGED <<regVars, PROGRESS_SENDER, rx, rxq, lightclient, argVars, pubVars>>

\* get_next_progress_update, first block: under the lock, subscribe to the
\* stored Sender if there is one.
PollSubscribe(p) ==
  /\ pc[p] = "idle"
  /\ psLock = None
  /\ op' = [op EXCEPT ![p] = "get_next_progress_update"]
  /\ rx' = [rx EXCEPT ![p] = PROGRESS_SENDER]
  /\ psLock' = SenderGuardDropped(p, TRUE)
  /\ Goto(p, IF PROGRESS_SENDER # None THEN "poll_recv" ELSE "poll_init")
  /\ UNCHANGED <<regVars, PROGRESS_SENDER, GLOBAL_PROGRESS_SENDER, rxq,
                 lightclient, argVars, frameVars, pubVars>>

\* get_next_progress_update, second block: no Sender was stored, so make a
\* channel, store its Sender under the lock and keep its Receiver.
PollInit(p) ==
  /\ pc[p] = "poll_init"
  /\ psLock = None
  /\ FreeChannels # {}
  /\ PROGRESS_SENDER' = NewChannel
  /\ rx' = [rx EXCEPT ![p] = NewChannel]
  /\ psLock' = SenderGuardDropped(p, TRUE)
  /\ Goto(p, "poll_recv")
  /\ UNCHANGED <<regVars, GLOBAL_PROGRESS_SENDER, rxq, op, lightclient, argVars,
                 frameVars, pubVars>>

\* rx.recv().await: the oldest unread event if there is one, else
\* Err(Closed) if no Sender is left, else the task stays suspended.
PollRecv(p) ==
  /\ pc[p] = "poll_recv"
  /\ \/ /\ rxq[p] # NoEvent
        /\ Finish(p, rxq[p])
     \/ /\ rxq[p] = NoEvent
        /\ Closed(rx[p])
        /\ Finish(p, Text("{\"error\": \"channel closed\"}"))
  /\ rx' = [rx EXCEPT ![p] = None]
  /\ rxq' = [rxq EXCEPT ![p] = NoEvent]
  /\ UNCHANGED <<regVars, PROGRESS_SENDER, GLOBAL_PROGRESS_SENDER, psLock,
                 op, lightclient, argVars, pubVars>>

\* -------------------------------------------------------- send_transaction
\* Emit initial progress.
SendTransactionBegin(p) ==
  /\ pc[p] = "idle"
  /\ op' = [op EXCEPT ![p] = "send_transaction"]
  /\ \E a \in Amounts : amount' = [amount EXCEPT ![p] = a]
  /\ UNCHANGED counters
  /\ Emit(p, Sending(0))
  /\ Goto(p, "st_get")
  /\ UNCHANGED <<regVars, lightclient, frameVars>>

\* A check that lets -1 through.
AmountRejectedBelowMinusOne(a) == a < -1
\* if amount < 0: the amount cannot become the u64 do_send expects.
AmountRejected(a) == a < 0

\* let lightclient = LIGHTCLIENT.lock().unwrap().borrow().clone();
SendTransactionGet(p) ==
  /\ pc[p] = "st_get"
  /\ lcLock = None
  /\ lightclient' = [lightclient EXCEPT ![p] = LIGHTCLIENT]
  /\ captured' = [captured EXCEPT ![p] = LIGHTCLIENT]
  /\ strong' = CloneHandle(strong, LIGHTCLIENT)
  /\ lcLock' = GuardDropped(p, TRUE)
  /\ LIGHTCLIENT' = SlotBorrowed(LIGHTCLIENT)
  /\ Goto(p, IF LIGHTCLIENT = None THEN "st_none"
             ELSE IF AmountRejected(amount[p]) THEN "st_negative" ELSE "st_prepare")
  /\ UNCHANGED <<monitor, wallet_file, lastSet, installed,
                 relayVars, op, argVars, txid, engineCall, pubVars>>

\* The None arm: publish the error event, return the uninitialized error.
SendTransactionNone(p) ==
  /\ pc[p] = "st_none"
  /\ Emit(p, Failed("Wallet not initialized"))
  /\ Finish(p, Text(NotInitialized))
  /\ UNCHANGED <<regVars, op, lightclient, argVars>>

\* amount < 0: publish the error event, return the invalid-amount error.
SendTransactionNegative(p) ==
  /\ pc[p] = "st_negative"
  /\ Emit(p, Failed("Invalid amount"))
  /\ Finish(p, Text(InvalidAmount))
  /\ DropLocal(p)
  /\ UNCHANGED <<LIGHTCLIENT, lcLock, wallet_file, lastSet, op, argVars>>

\* "Starting transaction preparation", then sleep(200ms).
SendTransactionPrepare(p) ==
  /\ pc[p] = "st_prepare"
  /\ Emit(p, Sending(0))
  /\ Goto(p, "st_build")
  /\ UNCHANGED <<regVars, op, lightclient, argVars, frameVars>>

\* "Starting transaction build", then lightclient.do_send(addrs) starts.
SendTransactionBuild(p) ==
  /\ pc[p] = "st_build"
  /\ Emit(p, Sending(10))
  /\ engineCall' = [engineCall EXCEPT ![p] =
       [target |-> lightclient[p], verb |-> "do_send", tokens |-> <<>>]]
  /\ Goto(p, "st_in_send")
  /\ UNCHANGED <<regVars, op, lightclient, argVars, txid, captured>>

\* do_send returns.  Ok(txid): publish 90, then sleep(500ms).  Err(e):
\* publish the error event and return {"error": e}.
SendTransactionSent(p) ==
  /\ pc[p] = "st_in_send"
  /\ \/ /\ \E t \in Txids : txid' = [txid EXCEPT ![p] = t]
        /\ Emit(p, Sending(90))
        /\ Goto(p, "st_complete")
        /\ UNCHANGED <<regVars, lightclient, captured, engineCall>>
     \/ /\ \E e \in SendErrors :
             /\ Emit(p, Failed(e))
             /\ Finish(p, [error |-> e])
        /\ DropLocal(p)
        /\ UNCHANGED <<LIGHTCLIENT, lcLock, wallet_file, lastSet>>
  /\ UNCHANGED <<op, argVars>>

\* Publish completed and return {"txid": txid}.
SendTransactionComplete(p) ==
  /\ pc[p] = "st_complete"
  /\ Emit(p, Completed(txid[p]))
  /\ Finish(p, [txid |-> txid[p]])
  /\ DropLocal(p)
  /\ UNCHANGED <<LIGHTCLIENT, lcLock, wallet_file, lastSet, op, argVars>>

\* ---------------------------------------------------------- specifications
Next ==
  \E p \in Procs :
    \/ Execute(p)
    \/ PassThrough(p)
    \/ ExecuteReturn(p)
    \/ Deinitialize(p)
    \/ LifecycleBuild(p)
    \/ LifecycleConstruct(p)
    \/ LifecycleMonitor(p)
    \/ LifecycleReplace(p)
    \/ WalletExists(p)
    \/ SendProgressUpdateCall(p)
    \/ EmitProgressUpdate(p)
    \/ InitProgressStream(p)
    \/ InitProgressStreamReturn(p)
    \/ InitProgressBridge(p)
    \/ PollSubscribe(p)
    \/ PollInit(p)
    \/ PollRecv(p)
    \/ SendTransactionBegin(p)
    \/ SendTransactionGet(p)
    \/ SendTransactionNone(p)
    \/ SendTransactionNegative(p)
    \/ SendTransactionPrepare(p)
    \/ SendTransactionBuild(p)
    \/ SendTransactionSent(p)
    \/ SendTransactionComplete(p)
    \/ Return(p)

Spec == Init /\ [][Next]_vars

\* The dispatcher and its pass-throughs against the lifecycle operations.
NextDispatch ==
  \E p \in Procs :
    \/ Execute(p)
    \/ PassThrough(p)
    \/ ExecuteReturn(p)
    \/ Deinitialize(p)
    \/ LifecycleBuild(p)
    \/ LifecycleConstruct(p)
    \/ LifecycleMonitor(p)
    \/ LifecycleReplace(p)
    \/ Return(p)

SpecDispatch == Init /\ [][NextDispatch]_vars

\* Every user of the registry: the lifecycle operations, deinitialize,
\* execute and send_transaction.
NextRegistry ==
  \E p \in Procs :
    \/ Execute(p)
    \/ ExecuteReturn(p)
    \/ Deinitialize(p)
    \/ LifecycleBuild(p)
    \/ LifecycleConstruct(p)
    \/ LifecycleMonitor(p)
    \/ LifecycleReplace(p)
    \/ SendTransactionBegin(p)
    \/ SendTransactionGet(p)
    \/ SendTransactionNone(p)
    \/ SendTransactionNegative(p)
    \/ SendTransactionPrepare(p)
    \/ SendTransactionBuild(p)
    \/ SendTransactionSent(p)
    \/ SendTransactionComplete(p)
    \/ Return(p)

SpecRegistry == Init /\ [][NextRegistry]_vars

\* send_transaction against the relay's initialization and its pollers.
NextSend ==
  \E p \in Procs :
    \/ InitProgressStream(p)
    \/ InitProgressStreamReturn(p)
    \/ PollSubscribe(p)
    \/ PollInit(p)
    \/ PollRecv(p)
    \/ SendTransactionBegin(p)
    \/ SendTransactionGet(p)
    \/ SendTransactionNone(p)
    \/ SendTransactionNegative(p)
    \/ SendTransactionPrepare(p)
    \/ SendTransactionBuild(p)
    \/ SendTransactionSent(p)
    \/ SendTransactionComplete(p)
    \/ Return(p)

SpecSend == InitWallet /\ [][NextSend]_vars

\* The relay's own operations.
NextRelay ==
  \E p \in Procs :
    \/ SendProgressUpdateCall(p)
    \/ EmitProgressUpdate(p)
    \/ InitProgressStream(p)
    \/ InitProgressStreamReturn(p)
    \/ InitProgressBridge(p)
    \/ PollSubscribe(p)
    \/ PollInit(p)
    \/ PollRecv(p)
    \/ Return(p)

SpecRelay == Init /\ [][NextRelay]_vars

\* The scheduler runs every task that can take its next step; nobody is
\* bound to start a new call.
FairSpecRelay ==
  /\ SpecRelay
  /\ \A p \in Procs :
       /\ WF_vars(PollInit(p))
       /\ WF_vars(PollRecv(p))
       /\ WF_vars(InitProgressStreamReturn(p))
       /\ WF_vars(Return(p))
\* One consumer that calls get_next_progress_update again and again beside
\* one send_transaction of another thread.  It starts with the relay
\* initialized (init_progress_stream has returned) and the consumer
\* suspended in its first poll.
Consumer == 1
Sender == 2

InitConsumer ==
  /\ \E e \in {None, 1} :
       /\ LIGHTCLIENT = e
       /\ strong = [x \in Engines |-> IF x = e THEN 1 ELSE 0]
       /\ monitor = [x \in Engines |-> x = e]
       /\ lastSet = e
       /\ installed = [x \in Engines |-> x = e]
  /\ lcLock = None
  /\ wallet_file = FALSE
  /\ PROGRESS_SENDER = 1
  /\ GLOBAL_PROGRESS_SENDER = None
  /\ psLock = None
  /\ rx = [p \in Procs |-> IF p = Consumer THEN 1 ELSE None]
  /\ rxq = [p \in Procs |-> NoEvent]
  /\ pc = [p \in Procs |-> IF p = Consumer THEN "poll_recv" ELSE "idle"]
  /\ op = [p \in Procs |-> IF p = Consumer THEN "get_next_progress_update" ELSE "none"]
  /\ result = [p \in Procs |-> NoResult]
  /\ lightclient = [p \in Procs |-> None]
  /\ amount = [p \in Procs |-> 0]
  /\ counters = [p \in Procs |-> <<0, 0>>]
  /\ txid = [p \in Procs |-> ""]
  /\ captured = [p \in Procs |-> None]
  /\ engineCall = [p \in Procs |-> NoCall]
  /\ sent = [p \in Procs |-> <<>>]
  /\ allOk = [p \in Procs |-> TRUE]

NextConsumer ==
  \/ PollSubscribe(Consumer)
  \/ PollRecv(Consumer)
  \/ Return(Consumer)
  \/ SendTransactionBegin(Sender)
  \/ SendTransactionGet(Sender)
  \/ SendTransactionNone(Sender)
  \/ SendTransactionNegative(Sender)
  \/ SendTransactionPrepare(Sender)
  \/ SendTransactionBuild(Sender)
  \/ SendTransactionSent(Sender)
  \/ SendTransactionComplete(Sender)

SpecConsumer == InitConsumer /\ [][NextConsumer]_vars

\* One thread calling execute with every verb and argument string.
Caller == 1

NextTokens ==
  \/ ExecuteAny(Caller)
  \/ ExecuteReturn(Caller)
  \/ Return(Caller)

SpecTokens == InitWallet /\ [][NextTokens]_vars

\* The engine's hook called with every pair of counters, beside the relay's
\* initialization.
NextPercent ==
  \E p \in Procs :
    \/ EmitProgressUpdateAny(p)
    \/ InitProgressStream(p)
    \/ InitProgressStreamReturn(p)
    \/ Return(p)

SpecPercent == Init /\ [][NextPercent]_vars

\* Polls beside the work of other threads: publishing, initializing the
\* relay and dispatching commands.
NextPollers ==
  \E p \in Procs :
    \/ PollSubscribe(p)
    \/ PollInit(p)
    \/ PollRecv(p)
    \/ SendProgressUpdateCall(p)
    \/ InitProgressStream(p)
    \/ InitProgressStreamReturn(p)
    \/ Execute(p)
    \/ ExecuteReturn(p)
    \/ Return(p)

SpecPollers == InitWallet /\ [][NextPollers]_vars

\* Every operation of the API, on two threads: one works on the registry
\* and initializes and feeds the relay, the other sends, polls and runs the
\* engine's hooks.
NextFrame ==
  \/ Execute(Caller)
  \/ PassThrough(Caller)
  \/ ExecuteReturn(Caller)
  \/ Deinitialize(Caller)
  \/ LifecycleBuild(Caller)
  \/ LifecycleConstruct(Caller)
  \/ LifecycleMonitor(Caller)
  \/ LifecycleReplace(Caller)
  \/ WalletExists(Caller)
  \/ SendProgressUpdateCall(Caller)
  \/ InitProgressStream(Caller)
  \/ InitProgressStreamReturn(Caller)
  \/ Return(Caller)
  \/ EmitProgressUpdate(Sender)
  \/ InitProgressBridge(Sender)
  \/ PollSubscribe(Sender)
  \/ PollInit(Sender)
  \/ PollRecv(Sender)
  \/ SendTransactionBegin(Sender)
  \/ SendTransactionGet(Sender)
  \/ SendTransactionNone(Sender)
  \/ SendTransactionNegative(Sender)
  \/ SendTransactionPrepare(Sender)
  \/ SendTransactionBuild(Sender)
  \/ SendTransactionSent(Sender)
  \/ SendTransactionComplete(Sender)
  \/ Return(Sender)

SpecFrame == Init /\ [][NextFrame]_vars

\* Polls and publishes on a relay nobody initializes: the first polls make
\* the channel themselves.
NextLazy ==
  \E p \in Procs :
    \/ PollSubscribe(p)
    \/ PollInit(p)
    \/ PollRecv(p)
    \/ SendProgressUpdateCall(p)
    \/ Return(p)

SpecLazy == Init /\ [][NextLazy]_vars

\* ------------------------------------------------------------------ claims
\* A thread inside the engine: do_user_command or do_send is running.
InEngine(p) == pc[p] \in {"ex_in_call", "st_in_send"}

\* C1: execute (and so every pass-through) called while the registry slot
\* is empty returns exactly the text {"error": "Wallet not initialized"},
\* makes no engine call and leaves the slot empty, whatever the verb and
\* the arguments and whatever lifecycle calls and deinitialize run beside it.
C1_UninitializedDispatch ==
  [][\A p \in Procs :
       (pc[p] = "idle" /\ op'[p] = "execute" /\ LIGHTCLIENT = None)
         => /\ pc'[p] = "done"
            /\ result'[p] = [text |-> "{\"error\": \"Wallet not initialized\"}"]
            /\ engineCall'[p] = NoCall
            /\ lightclient'[p] = None
            /\ LIGHTCLIENT' = None
            /\ strong' = strong]_vars

\* An execute has returned the uninitialized error after a deinitialize of
\* another thread emptied the slot.
C1_Witness ==
  \E p, q \in Procs :
    /\ pc[p] = "done" /\ op[p] = "execute"
    /\ result[p] = Text(NotInitialized)
    /\ pc[q] = "done" /\ op[q] = "deinitialize"
    /\ LIGHTCLIENT = None

\* C2: the handle in the registry slot, and every handle a dispatch or a
\* send took from it, belongs to an engine whose mempool watcher was started.
C2_WatcherStartedBeforeInstall ==
  /\ LIGHTCLIENT # None => monitor[LIGHTCLIENT]
  /\ \A p \in Procs : captured[p] # None => monitor[captured[p]]

\* An engine is installed and in use while another one is built and its
\* watcher is not started yet.
C2_Witness ==
  \E p, q \in Procs :
    /\ InEngine(p) /\ captured[p] = LIGHTCLIENT
    /\ pc[q] = "lc_monitor" /\ ~monitor[lightclient[q]]

\* C3: a thread inside the engine's command executor or value-transfer call
\* does not hold the registry lock.
C3_NoLockAcrossEngineCall ==
  \A p \in Procs : InEngine(p) => lcLock # p

\* A lifecycle operation has replaced the slot while a send was inside do_send.
C3_Witness ==
  \E p, q \in Procs :
    /\ pc[p] = "st_in_send"
    /\ LIGHTCLIENT \notin {None, captured[p]}
    /\ pc[q] = "done" /\ op[q] \in LifecycleOps

\* C4: a dispatch or send that captured engine E runs its engine call on E,
\* and E stays alive (one reference per call that captured it) whatever
\* happens to the slot meanwhile.
C4_CapturedEngineStaysAlive ==
  \A p \in Procs :
    captured[p] # None =>
      /\ lightclient[p] = captured[p]
      /\ strong[captured[p]] >= Cardinality({q \in Procs : captured[q] = captured[p]})
      /\ InEngine(p) => engineCall[p].target = captured[p]

\* An engine call is running on an engine that deinitialize has taken out
\* of the slot: the caller's reference is the last one.
C4_Witness ==
  \E p \in Procs :
    /\ InEngine(p)
    /\ LIGHTCLIENT = None
    /\ strong[captured[p]] = 1

\* C5: the slot holds what the last set gave it; a reader gets nothing or
\* the handle of an engine a lifecycle operation installed; an execute
\* reads the value of the last set, so after a lifecycle operation has
\* installed its engine, with no later set, the call runs on that engine.
C5_AtomicReplacement ==
  [][/\ LIGHTCLIENT' = lastSet'
     /\ \A p \in Procs :
          /\ captured'[p] # None => installed'[captured'[p]]
          /\ (pc[p] = "idle" /\ op'[p] = "execute")
               => IF lastSet = None
                    THEN pc'[p] = "done"
                    ELSE /\ pc'[p] = "ex_in_call"
                         /\ engineCall'[p].target = lastSet]_vars

\* Two engines were installed one after the other; a call that started
\* before the second set runs on the first, one that started after it on
\* the second, which the slot holds.
C5_Witness ==
  \E p, q \in Procs :
    /\ pc[p] = "ex_in_call" /\ pc[q] = "ex_in_call"
    /\ engineCall[p].target # engineCall[q].target
    /\ engineCall[q].target = LIGHTCLIENT
\* A result of error shape: {"error": <message>}.
IsErrorResult(r) ==
  \/ r \in {Text(NotInitialized), Text(InvalidAmount)}
  \/ "error" \in DOMAIN r

\* C6: the progress values of the events one send_transaction publishes
\* are non-decreasing and end at completed/100 or at an error event, and
\* no event has progress above its total.  (Stated of the invocations
\* whose events the channel all took.)
C6_ProgressNonDecreasing ==
  \A p \in Procs :
    (op[p] = "send_transaction" /\ allOk[p]) =>
      /\ \A i \in 1..(Len(sent[p]) - 1) : sent[p][i].progress <= sent[p][i + 1].progress
      /\ \A i \in 1..Len(sent[p]) : sent[p][i].progress <= sent[p][i].total
      /\ pc[p] = "done" =>
           /\ sent[p] # <<>>
           /\ LET last == sent[p][Len(sent[p])]
              IN \/ last.status = "completed" /\ last.progress = 100
                 \/ last.status = "error"

\* C7: send_transaction with a negative amount returns an error result and
\* publishes exactly one event, of status error.  (Stated of the
\* invocations that reached the amount check, i.e. returned the invalid
\* amount error, and whose events the channel all took.)
C7_NegativeAmountOneEvent ==
  \A p \in Procs :
    (/\ op[p] = "send_transaction" /\ pc[p] = "done"
     /\ amount[p] < 0 /\ result[p] = Text(InvalidAmount) /\ allOk[p]) =>
      /\ IsErrorResult(result[p])
      /\ Len(sent[p]) = 1
      /\ sent[p][1].status = "error"

\* C8: send_progress_update succeeds on an initialized relay whatever the
\* number of subscribers: the only error it returns is the one for a relay
\* that was never initialized.
C8_PublishWithoutSubscribers ==
  \A p \in Procs :
    (op[p] = "send_progress_update" /\ pc[p] = "done") =>
      result[p] \in {Text("OK"), Text("Error: No sender initialized")}

\* C9: once a send_progress_update has returned, the relay holds a channel
\* (the call made one if none was there).
C9_PublishInitializesRelay ==
  \A p \in Procs :
    (op[p] = "send_progress_update" /\ pc[p] = "done") => PROGRESS_SENDER # None

\* C10: a poll that waits on a channel the relay no longer holds
\* (init_progress_stream replaced it) eventually returns.
C10_PollReturnsAfterReinit ==
  \A p \in Procs :
    (pc[p] = "poll_recv" /\ rx[p] # PROGRESS_SENDER) ~> (pc[p] = "done")

\* C11: a consumer polling in a loop beside one send_transaction, and
\* waiting in a poll before the send starts, is handed every event the send
\* publishes: at each publish a poll of the consumer is subscribed and
\* takes the event in as the next one it will return.
C11_ConsumerSeesEveryEvent ==
  [][(op'[Sender] = "send_transaction" /\ sent'[Sender] # sent[Sender])
       => /\ pc[Consumer] = "poll_recv"
          /\ rxq[Consumer] = NoEvent
          /\ rxq'[Consumer] = sent'[Sender][Len(sent'[Sender])]]_vars

\* C12: when initialize_from_phrase is called with overwrite = true and a
\* wallet file exists, the constructor starts with the file removed and is
\* given overwrite semantics.
C12_OverwriteRemovesFile ==
  \A p \in Procs :
    (pc[p] = "lc_construct" /\ engineCall[p].requested /\ engineCall[p].existed) =>
      /\ ~engineCall[p].present
      /\ engineCall[p].overwrite

\* The words of a: the k-th word starts at the k-th position that holds a
\* non-whitespace character after a whitespace one (or at the start), and
\* runs to the last position before the next whitespace character.
WordStarts(a) ==
  {i \in 1..Len(a) : a[i] \notin Whitespace /\ (i = 1 \/ a[i - 1] \in Whitespace)}
WordEnd(a, i) ==
  CHOOSE j \in i..Len(a) :
    /\ \A k \in i..j : a[k] \notin Whitespace
    /\ j = Len(a) \/ a[j + 1] \in Whitespace
IsWordsOf(t, a) ==
  /\ Len(t) = Cardinality(WordStarts(a))
  /\ \A i \in WordStarts(a) :
       t[Cardinality({j \in WordStarts(a) : j <= i})] = SubSeq(a, i, WordEnd(a, i))

\* C13: the tokens execute forwards are none for empty args, the one token
\* args when the verb is "send" and args begins with '[', and otherwise the
\* words of args in order; the engine's text is returned as it is.
C13_Tokenization ==
  [][\A p \in Procs :
       /\ pc'[p] = "ex_in_call" =>
            LET call == engineCall'[p]
            IN IF call.args = <<>> THEN call.tokens = <<>>
               ELSE IF call.verb = "send" /\ call.args[1] = "["
                      THEN call.tokens = <<call.args>>
                      ELSE IsWordsOf(call.tokens, call.args)
       /\ (pc[p] = "ex_in_call" /\ pc'[p] = "done") =>
            \E r \in CommandResults : result'[p] = [text |-> r]]_vars

\* A send whose bracketed arguments hold whitespace is in the engine, as
\* one token.
C13_Witness ==
  \E p \in Procs :
    /\ pc[p] = "ex_in_call"
    /\ engineCall[p].verb = "send"
    /\ engineCall[p].args # <<>>
    /\ engineCall[p].args[1] = "["
    /\ \E i \in DOMAIN engineCall[p].args : engineCall[p].args[i] \in Whitespace
    /\ Len(engineCall[p].tokens) = 1

\* C14: emit_progress_update(processed, total) publishes one sending event
\* with total 100 and progress 50 when total = 0, else
\* 50 + floor(40 * min(processed, total) / total); the progress lies in
\* 50..90, is 70 for (1, 2), 50 for (0, 0), 90 when processed >= total > 0,
\* and does not decrease when processed grows for the same total.
C14_ProgressRemap ==
  \A p \in Procs :
    (op[p] = "emit_progress_update" /\ pc[p] = "done") =>
      LET processed == counters[p][1]
          total == counters[p][2]
          least == IF processed < total THEN processed ELSE total
      IN /\ Len(sent[p]) = 1
         /\ sent[p][1].status = "sending"
         /\ sent[p][1].total = 100
         /\ sent[p][1].progress =
              IF total = 0 THEN 50 ELSE 50 + ((40 * least) \div total)
         /\ sent[p][1].progress \in 50..90
         /\ counters[p] = <<1, 2>> => sent[p][1].progress = 70
         /\ counters[p] = <<0, 0>> => sent[p][1].progress = 50
         /\ (processed >= total /\ total > 0) => sent[p][1].progress = 90
         /\ \A q \in Procs :
              (/\ op[q] = "emit_progress_update" /\ pc[q] = "done"
               /\ counters[q][2] = total /\ counters[q][1] <= processed)
                => sent[q][1].progress <= sent[p][1].progress

\* The hook has reported 3 of 2 on one thread (90) and 1 of 2 on another (70).
C14_Witness ==
  \E p, q \in Procs :
    /\ op[p] = "emit_progress_update" /\ pc[p] = "done" /\ counters[p] = <<3, 2>>
    /\ sent[p] = <<Sending(90)>>
    /\ op[q] = "emit_progress_update" /\ pc[q] = "done" /\ counters[q] = <<1, 2>>
    /\ sent[q] = <<Sending(70)>>

\* C15: within one send_transaction, every event published has a progress
\* strictly greater than the event the same invocation published before it.
\* (Stated of the invocations whose events the channel all took.)
C15_ProgressStrictlyIncreasing ==
  \A p \in Procs :
    (op[p] = "send_transaction" /\ allOk[p]) =>
      \A i \in 1..(Len(sent[p]) - 1) : sent[p][i].progress < sent[p][i + 1].progress

\* The last event an invocation gave to send_progress_update.
LastSent(s) == s[Len(s)]

\* C16: a send_transaction with a negative amount never reaches the
\* engine's value-transfer call, whatever the registry and the relay hold;
\* when it returns, its result is error-shaped and the last event it gave
\* to the relay has status error, and every poll then waiting on the
\* relay's channel takes that event in.
C16_NegativeAmountRejected ==
  [][\A p \in Procs :
       (op'[p] = "send_transaction" /\ amount'[p] < 0) =>
         /\ engineCall'[p] = NoCall
         /\ pc'[p] \notin {"st_prepare", "st_build", "st_in_send", "st_complete"}
         /\ (pc[p] # "done" /\ pc'[p] = "done") =>
              /\ IsErrorResult(result'[p])
              /\ sent'[p] # sent[p]
              /\ LastSent(sent'[p]).status = "error"
              /\ \A q \in Procs :
                   (pc[q] = "poll_recv" /\ rx[q] = PROGRESS_SENDER /\ rxq[q] = NoEvent)
                     => rxq'[q] = LastSent(sent'[p])]_vars

\* A send with a negative amount has returned the invalid-amount error on
\* an initialized wallet, and a waiting poll holds its error event.
C16_Witness ==
  \E p, q \in Procs :
    /\ op[p] = "send_transaction" /\ pc[p] = "done" /\ amount[p] < 0
    /\ result[p] = Text(InvalidAmount)
    /\ pc[q] = "poll_recv" /\ rxq[q] = Failed("Invalid amount")

\* C17: a poll subscribed to a channel the relay has replaced is handed no
\* event from then on: what it holds unread does not change until it
\* returns, and it returns what it held or the closed-channel error.
C17_OldSubscriberGetsNothing ==
  [][\A q \in Procs :
       (pc[q] = "poll_recv" /\ rx[q] # PROGRESS_SENDER) =>
         \/ pc'[q] = "poll_recv" /\ rxq'[q] = rxq[q]
         \/ /\ pc'[q] = "done"
            /\ result'[q] = IF rxq[q] # NoEvent THEN rxq[q]
                            ELSE [text |-> "{\"error\": \"channel closed\"}"]]_vars

\* A poll still waits, empty-handed, on a replaced channel after another
\* thread's send_progress_update ran against the new one.
C17_Witness ==
  \E p, q \in Procs :
    /\ pc[q] = "poll_recv" /\ rx[q] # PROGRESS_SENDER /\ rxq[q] = NoEvent
    /\ PROGRESS_SENDER # None
    /\ op[p] = "send_progress_update" /\ pc[p] = "done"
    /\ result[p] # Text("Error: No sender initialized")

\* C18: a get_next_progress_update suspended in its wait holds neither the
\* relay lock nor the registry lock.
C18_WaitingPollHoldsNoLock ==
  \A q \in Procs : pc[q] = "poll_recv" => (psLock # q /\ lcLock # q)

\* While one poll waits with nothing to read, another thread's execute is
\* inside the engine.
C18_Witness ==
  \E p, q \in Procs :
    /\ pc[q] = "poll_recv" /\ rxq[q] = NoEvent
    /\ pc[p] = "ex_in_call"

\* C19: initialize_existing_with_birthday called when no wallet file exists
\* returns an error text at once; it builds no engine, starts no watcher
\* and leaves the registry slot, and the engine in it, as they were.
C19_ExistingWithoutFile ==
  [][\A p \in Procs :
       (/\ pc[p] = "idle" /\ op'[p] = "initialize_existing_with_birthday"
        /\ ~wallet_file) =>
         /\ pc'[p] = "done"
         /\ result'[p] \in {[text |-> "Error: Wallet file not found at: path"],
                            [text |-> "Error: e"]}
         /\ lightclient'[p] = None
         /\ strong' = strong
         /\ monitor' = monitor
         /\ LIGHTCLIENT' = LIGHTCLIENT
         /\ ~wallet_file']_vars

\* The call has reported the missing file while an engine installed
\* earlier is still the current one.
C19_Witness ==
  \E p \in Procs :
    /\ op[p] = "initialize_existing_with_birthday" /\ pc[p] = "done"
    /\ result[p] = Text("Error: Wallet file not found at: path")
    /\ LIGHTCLIENT # None /\ monitor[LIGHTCLIENT]
    /\ ~wallet_file

\* C20: deinitialize returns "OK" and leaves the registry slot empty from
\* any state; called on an empty slot it changes nothing of the registry
\* (so twice is as once); and an execute that reads the slot while it is
\* empty returns the uninitialized error.
C20_DeinitializeIdempotent ==
  [][\A p \in Procs :
       /\ (pc[p] = "idle" /\ op'[p] = "deinitialize") =>
            /\ pc'[p] = "done"
            /\ result'[p] = [text |-> "OK"]
            /\ LIGHTCLIENT' = None
            /\ lastSet' = None
            /\ LIGHTCLIENT = None => UNCHANGED regVars
       /\ (pc[p] = "idle" /\ op'[p] = "execute" /\ lastSet = None) =>
            result'[p] = [text |-> "{\"error\": \"Wallet not initialized\"}"]]_vars

\* Two deinitialize calls have returned one after the other, and the slot
\* is empty.
C20_Witness ==
  \E p, q \in Procs :
    /\ p # q
    /\ op[p] = "deinitialize" /\ pc[p] = "done" /\ result[p] = Text("OK")
    /\ op[q] = "deinitialize" /\ pc[q] = "done" /\ result[q] = Text("OK")
    /\ LIGHTCLIENT = None

\* An event that ends a send: status completed or error.
IsTerminal(ev) == ev.status \in {"completed", "error"}

\* The stages of a sequence of events: status and progress, a stage that
\* is published again right after itself counted once.
RECURSIVE Stages(_)
Stages(s) ==
  IF s = <<>> THEN <<>>
  ELSE LET rest == Stages(Tail(s))
           st == <<s[1].status, s[1].progress>>
       IN IF rest # <<>> /\ rest[1] = st THEN rest ELSE <<st>> \o rest

\* C21: a send_transaction gives the relay no terminal event while it
\* runs and exactly one, as its last event, by the time it returns; it
\* returns the success body with a txid exactly when that event is
\* completed with progress 100 and the same txid; and then its stages are,
\* in order, sending 0, sending 10, sending 90, completed 100.
C21_OneTerminalEvent ==
  \A p \in Procs :
    op[p] = "send_transaction" =>
      IF pc[p] # "done"
        THEN \A i \in 1..Len(sent[p]) : ~IsTerminal(sent[p][i])
        ELSE /\ sent[p] # <<>>
             /\ IsTerminal(LastSent(sent[p]))
             /\ \A i \in 1..(Len(sent[p]) - 1) : ~IsTerminal(sent[p][i])
             /\ ("txid" \in DOMAIN result[p]) <=>
                  (LastSent(sent[p]).status = "completed" /\ LastSent(sent[p]).progress = 100)
             /\ "txid" \in DOMAIN result[p] =>
                  /\ LastSent(sent[p]).txid = result[p].txid
                  /\ Stages(sent[p]) = << <<"sending", 0>>, <<"sending", 10>>,
                                          <<"sending", 90>>, <<"completed", 100>> >>

\* A send has returned its txid after its five publishes.
C21_Witness ==
  \E p \in Procs :
    /\ op[p] = "send_transaction" /\ pc[p] = "done"
    /\ result[p] = [txid |-> "tx1"]
    /\ Len(sent[p]) = 5
    /\ LastSent(sent[p]) = Completed("tx1")

\* The texts a lifecycle operation returns when it fails.
LifecycleErrors ==
  {Text("Error: e"), Text("Error: Wallet file not found at: path"),
   Text("Error: Could not read wallet file: e")}

\* C22: the registry slot changes only in the last step of a lifecycle
\* operation that succeeds (to that operation's engine) or in deinitialize
\* (to None); a watcher is started only by a lifecycle operation on its own
\* engine, and that operation's only step from there installs the engine;
\* a lifecycle operation that returns an error has changed neither.
C22_SlotFrame ==
  [][/\ LIGHTCLIENT' # LIGHTCLIENT =>
          \E p \in Procs :
            \/ /\ pc[p] = "lc_replace" /\ pc'[p] = "done"
               /\ op[p] \in LifecycleOps
               /\ result'[p] \notin LifecycleErrors
               /\ LIGHTCLIENT' = lightclient[p]
            \/ /\ pc[p] = "idle" /\ op'[p] = "deinitialize"
               /\ LIGHTCLIENT' = None
     /\ \A e \in Engines :
          (~monitor[e] /\ monitor'[e]) =>
            \E p \in Procs :
              /\ op[p] \in LifecycleOps
              /\ pc[p] = "lc_monitor" /\ pc'[p] = "lc_replace"
              /\ lightclient[p] = e
     /\ \A p \in Procs :
          /\ (pc[p] = "lc_replace" /\ pc'[p] # "lc_replace") =>
               (pc'[p] = "done" /\ LIGHTCLIENT' = lightclient[p])
          /\ (op'[p] \in LifecycleOps /\ pc[p] # "done" /\ pc'[p] = "done"
              /\ result'[p] \in LifecycleErrors) =>
               /\ LIGHTCLIENT' = LIGHTCLIENT
               /\ \A e \in Engines : monitor'[e] => monitor[e]]_vars

\* A lifecycle operation has failed while an engine installed earlier is
\* current and a send is inside that engine.
C22_Witness ==
  /\ op[Caller] \in LifecycleOps /\ pc[Caller] = "done"
  /\ result[Caller] \in LifecycleErrors
  /\ LIGHTCLIENT # None
  /\ pc[Sender] = "st_in_send" /\ captured[Sender] = LIGHTCLIENT

\* C23: a poll that found no channel and installs one of its own does not
\* replace a channel installed since it looked: the slot is still empty
\* when it stores its Sender, so it, and every other waiting poll, waits on
\* the channel the relay holds.
C23_LazyInitKeepsChannel ==
  [][\A p \in Procs :
       (pc[p] = "poll_init" /\ pc'[p] = "poll_recv") =>
         /\ PROGRESS_SENDER = None
         /\ \A q \in Procs : pc'[q] = "poll_recv" => rx'[q] = PROGRESS_SENDER']_vars
====
